---- MODULE Spec2Model ----
(***************************************************************************)
(* The three programs of the repository as one state machine:              *)
(*   prog = "lz77"     src/main.rs (= examples/lz77.rs): lz77_encode then  *)
(*                     lz77_decode;                                        *)
(*   prog = "huffman"  examples/huffman.rs: frequencies, build_tree,       *)
(*                     build_codebook, huffman_encode, huffman_decode;     *)
(*   prog = "zip"      examples/zip.rs: zip_compress then zip_decompress.  *)
(* Bytes and chars are their code points (naturals); a Rust slice index k  *)
(* is the TLA+ sequence index k + 1.                                       *)
(***************************************************************************)
EXTENDS Integers, Sequences, FiniteSets, TLC

VARIABLES
    prog,            \* which main() runs
    pc,              \* position in that main()
    data,            \* the input bytes (huffman.rs: the input text)
    i,               \* lz77_encode: the cursor
    compressed,      \* lz77_encode: the tokens pushed so far
    cursors,         \* the cursor each token of compressed was pushed at
    fm,              \* the last direct call of find_longest_match
    lz77_string,     \* zip_compress: the serialized tokens (huffman.rs: the text)
    frequencies,     \* char -> count
    tree,            \* the Huffman tree
    codebook,        \* char -> code (sequence of booleans)
    huffman_encoded, \* the encoder's bit sequence
    run,             \* 1: first call of zip_compress, 2: second call on the same input
    first,           \* what the first call of zip_compress returned
    received,        \* the bit sequence handed to huffman_decode
    decoded,         \* huffman_decode: the decoded string
    leftover,        \* huffman_decode: `bits` when the input is exhausted
    lz77_encoded,    \* zip_decompress: the tokens parsed back
    decompressed     \* lz77_decode: the output bytes

vars == <<prog, pc, data, i, compressed, cursors, fm, lz77_string, frequencies,
          tree, codebook, huffman_encoded, run, first, received, decoded,
          leftover, lz77_encoded, decompressed>>

(***************************************************************************)
(* Constants of the program and bounds of the model.                       *)
(***************************************************************************)
MIN_MATCH == 2
WINDOW_SIZE == 255

\* every input over Bytes of length <= MaxLen is explored
MaxLen == 4
\* a run of one byte long enough for a match length that takes three digits
MidLen == 102
\* a run of one byte longer than the window
LongLen == 258

\* '0', 'A', 'B'
Bytes == {48, 65, 66}

Min(a, b) == IF a < b THEN a ELSE b

Run(b, n) == [k \in 1..n |-> b]

ShortInputs == UNION {[1..n -> Bytes] : n \in 0..MaxLen}

LongInputs == {Run(65, MidLen), Run(65, LongLen), Run(65, LongLen - 2) \o <<66>>}

Inputs == ShortInputs \cup LongInputs

\* data[k] of the Rust slice
At(s, k) == s[k + 1]

(***************************************************************************)
(* find_longest_match                                                      *)
(***************************************************************************)
\* cur.saturating_sub(WINDOW_SIZE), with no window at all
window_start_unbounded(cur) == 0

\* let mut start = cur.saturating_sub(WINDOW_SIZE);
window_start(cur) == IF cur > WINDOW_SIZE THEN cur - WINDOW_SIZE ELSE 0

\* the length cap of the inner loop, left out
within_cap_uncapped(cur, current_match_index) == TRUE

\* (current_match_index - cur) < WINDOW_SIZE
within_cap(cur, current_match_index) == current_match_index - cur < WINDOW_SIZE

\* one iteration of the inner while loop on reference_match_index (the
\* other index is cur + reference_match_index - start); once the condition
\* fails the index stays where it is
match_step(d, cur, start, reference_match_index) ==
    LET current_match_index == cur + (reference_match_index - start)
    IN  IF /\ current_match_index < Len(d)
           /\ At(d, reference_match_index) = At(d, current_match_index)
           /\ within_cap(cur, current_match_index)
        THEN reference_match_index + 1
        ELSE reference_match_index

\* n iterations of the inner while loop, in order. The recursion halves n
\* and tests the first half's result (a test that always holds) only so that
\* the evaluation is shallow and in order.
RECURSIVE match_steps(_, _, _, _, _)
match_steps(d, cur, start, reference_match_index, n) ==
    IF n = 0
    THEN reference_match_index
    ELSE IF n = 1
         THEN match_step(d, cur, start, reference_match_index)
         ELSE LET half == match_steps(d, cur, start, reference_match_index, n \div 2)
              IN  IF half >= start
                  THEN match_steps(d, cur, start, half, n - (n \div 2))
                  ELSE half

\* the inner while loop, which ends within len(data) - cur iterations;
\* yields the final reference_match_index
match_extend(d, cur, start) == match_steps(d, cur, start, start, Len(d) - cur)

\* if len >= max_len: the last start of equal length would win
is_longer_or_equal(len, max_len) == len >= max_len

\* if len > max_len
is_longer(len, max_len) == len > max_len

\* one iteration of the outer while loop on <<match_index, max_len>>
scan_step(d, cur, start, st) ==
    LET len == match_extend(d, cur, start) - start
    IN  IF is_longer(len, st[2]) THEN <<start, len>> ELSE st

\* the iterations start = lo, ..., hi - 1 of the outer while loop, in order
\* (halved, with a test that always holds, as in match_steps)
RECURSIVE scan_window(_, _, _, _, _)
scan_window(d, cur, lo, hi, st) ==
    IF lo >= hi
    THEN st
    ELSE IF hi - lo = 1
         THEN scan_step(d, cur, lo, st)
         ELSE LET mid == (lo + hi) \div 2
                  half == scan_window(d, cur, lo, mid, st)
              IN  IF half[2] >= 0 THEN scan_window(d, cur, mid, hi, half) ELSE half

\* yields <<offset, length>>
find_longest_match(d, cur) ==
    LET r == scan_window(d, cur, window_start(cur), cur, <<0, 0>>)
    IN  <<cur - r[1], r[2]>>

(***************************************************************************)
(* lz77_encode, one iteration of its loop, and lz77_decode                 *)
(***************************************************************************)
Encoded(o, l, b) == [offset |-> o, length |-> l, byte |-> b]

\* the token lz77_encode pushes for the match m == <<offset, length>> found
\* at a cursor whose byte is b
encode_token(m, b) ==
    IF m[2] < MIN_MATCH THEN Encoded(0, 0, b) ELSE Encoded(m[1], m[2], 0)

\* i += 1 for a literal, i += length for a match
encode_advance(m) == IF m[2] < MIN_MATCH THEN 1 ELSE m[2]

\* for i in lo..hi { decompressed.push(decompressed[i]) }, in order
\* (halved, with a test that always holds, as in match_steps)
RECURSIVE copy_bytes(_, _, _)
copy_bytes(out, lo, hi) ==
    IF lo >= hi
    THEN out
    ELSE IF hi - lo = 1
         THEN Append(out, At(out, lo))
         ELSE LET mid == (lo + hi) \div 2
                  half == copy_bytes(out, lo, mid)
              IN  IF Len(half) >= 0 THEN copy_bytes(half, mid, hi) ELSE half

\* a block copy of the bytes that exist when the match starts
replay_match_block(out, enc) ==
    LET start == Len(out) - enc.offset
    IN  out \o SubSeq(out, start + 1, Min(start + enc.length, Len(out)))

\* the else branch of lz77_decode, for a match that reads inside the output
replay_match(out, enc) ==
    LET start == Len(out) - enc.offset
    IN  copy_bytes(out, start, start + enc.length)

\* the for loop of lz77_decode from token k on. `checked` is the build's
\* overflow-checks setting: decompressed.len() - enc.offset panics when it
\* underflows in a checked build and wraps modulo 2^64 in an unchecked one,
\* where the range start..start + length is then empty (the sum wraps back
\* below start) or starts past the end of the output (the index panics).
RECURSIVE decode_from(_, _, _, _)
decode_from(toks, k, out, checked) ==
    IF k > Len(toks)
    THEN [ok |-> TRUE, out |-> out]
    ELSE LET enc == toks[k]
         IN  IF enc.length = 0
             THEN decode_from(toks, k + 1, Append(out, enc.byte), checked)
             ELSE IF enc.offset > Len(out)
                  THEN IF ~checked /\ enc.length >= enc.offset - Len(out)
                       THEN decode_from(toks, k + 1, out, checked)
                       ELSE [ok |-> FALSE, out |-> out]
                  ELSE IF enc.offset = 0
                       THEN [ok |-> FALSE, out |-> out]
                       ELSE decode_from(toks, k + 1, replay_match(out, enc), checked)

lz77_decode(toks, checked) == decode_from(toks, 1, <<>>, checked)

(***************************************************************************)
(* zip_compress: the tokens as a string; zip_decompress: the string as     *)
(* tokens                                                                  *)
(***************************************************************************)
\* the decimal digits of n, as chars
RECURSIVE decimal(_)
decimal(n) == IF n < 10 THEN <<48 + n>> ELSE Append(decimal(n \div 10), 48 + (n % 10))

\* format!("{:02}", n): at least two digits, zero padded, never truncated
fmt02(n) == IF n < 10 THEN <<48>> \o decimal(n) ELSE decimal(n)

\* format!("{:02}{:02}{}", offset, length, byte as char)
format_token(enc) == fmt02(enc.offset) \o fmt02(enc.length) \o <<enc.byte>>

RECURSIVE serialize_from(_, _)
serialize_from(toks, k) ==
    IF k > Len(toks) THEN <<>> ELSE format_token(toks[k]) \o serialize_from(toks, k + 1)

serialize(toks) == serialize_from(toks, 1)

IsDigit(c) == c >= 48 /\ c <= 57

\* format!("{}{}", a, b).parse::<usize>() succeeds: digits, or '+' and a digit
parses(a, b) == (IsDigit(a) \/ a = 43) /\ IsDigit(b)

parse_usize(a, b) == IF a = 43 THEN b - 48 ELSE 10 * (a - 48) + (b - 48)

\* the while-let loop of zip_decompress from char k on (1-based); an
\* expect() that fails ends it
RECURSIVE parse_from(_, _, _)
parse_from(str, k, toks) ==
    IF k > Len(str)
    THEN [ok |-> TRUE, toks |-> toks]
    ELSE IF k + 4 > Len(str)
         THEN [ok |-> FALSE, toks |-> toks]
         ELSE IF ~parses(str[k], str[k + 1]) \/ ~parses(str[k + 2], str[k + 3])
              THEN [ok |-> FALSE, toks |-> toks]
              ELSE parse_from(str, k + 5,
                       Append(toks, Encoded(parse_usize(str[k], str[k + 1]),
                                            parse_usize(str[k + 2], str[k + 3]),
                                            str[k + 4] % 256)))

parse_tokens(str) == parse_from(str, 1, <<>>)

(***************************************************************************)
(* HuffmanNode, its ordering, and the BinaryHeap build_tree keeps it in    *)
(***************************************************************************)
Leaf(c, f) == [kind |-> "Leaf", character |-> c, frequency |-> f]

Internal(l, r) == [kind |-> "Internal", left |-> l, right |-> r]

NoTree == [kind |-> "None"]

RECURSIVE frequency(_)
frequency(node) ==
    IF node.kind = "Leaf"
    THEN node.frequency
    ELSE frequency(node.left) + frequency(node.right)

\* a <= b under Ord::cmp, which is other.frequency().cmp(&self.frequency())
node_le(a, b) == frequency(b) <= frequency(a)

SetAt(h, p, v) == [h EXCEPT ![p + 1] = v]

\* BinaryHeap::sift_up(start, pos) with the element elt held out of the hole at pos
RECURSIVE sift_up(_, _, _, _)
sift_up(h, start, pos, elt) ==
    IF pos > start
    THEN LET parent == (pos - 1) \div 2
         IN  IF node_le(elt, At(h, parent))
             THEN SetAt(h, pos, elt)
             ELSE sift_up(SetAt(h, pos, At(h, parent)), start, parent, elt)
    ELSE SetAt(h, pos, elt)

\* BinaryHeap::push
heap_push(h, item) == sift_up(Append(h, item), 0, Len(h), item)

\* BinaryHeap::sift_down_to_bottom(0): the hole goes down along the greater
\* child to a leaf, then the element sifts up from there
RECURSIVE sift_down_to_bottom(_, _, _, _)
sift_down_to_bottom(h, pos, elt, end) ==
    LET child == 2 * pos + 1
    IN  IF end >= 2 /\ child <= end - 2
        THEN LET c == IF node_le(At(h, child), At(h, child + 1)) THEN child + 1 ELSE child
             IN  sift_down_to_bottom(SetAt(h, pos, At(h, c)), c, elt, end)
        ELSE IF child = end - 1
             THEN sift_up(SetAt(h, pos, At(h, child)), 0, child, elt)
             ELSE sift_up(h, 0, pos, elt)

\* BinaryHeap::pop on a non-empty heap: the popped item and the heap left
heap_pop(h) ==
    LET last == h[Len(h)]
        rest == SubSeq(h, 1, Len(h) - 1)
    IN  IF Len(rest) = 0
        THEN [item |-> last, heap |-> rest]
        ELSE [item |-> rest[1],
              heap |-> sift_down_to_bottom(SetAt(rest, 0, last), 0, last, Len(rest))]

(***************************************************************************)
(* build_tree and build_codebook                                           *)
(***************************************************************************)
\* the for loop of build_tree: one leaf pushed per entry, in the order the
\* HashMap's iterator yields the entries
RECURSIVE push_leaves(_, _, _, _)
push_leaves(freq, order, k, h) ==
    IF k > Len(order)
    THEN h
    ELSE push_leaves(freq, order, k + 1, heap_push(h, Leaf(order[k], freq[order[k]])))

\* the while loop of build_tree
RECURSIVE combine(_)
combine(h) ==
    IF Len(h) > 1
    THEN LET p1 == heap_pop(h)
             p2 == heap_pop(p1.heap)
         IN  combine(heap_push(p2.heap, Internal(p1.item, p2.item)))
    ELSE h

\* build_tree on a non-empty frequency table iterated in `order`
build_tree(freq, order) == heap_pop(combine(push_leaves(freq, order, 1, <<>>))).item

\* build_codebook: the entries it inserts below node; the right subtree's
\* inserts come last
RECURSIVE build_codebook(_, _)
build_codebook(node, prefix) ==
    IF node.kind = "Leaf"
    THEN node.character :> prefix
    ELSE build_codebook(node.right, Append(prefix, TRUE))
             @@ build_codebook(node.left, Append(prefix, FALSE))

\* the orders a HashMap's iterator may yield the keys S in
RECURSIVE Orders(_)
Orders(S) ==
    IF S = {}
    THEN {<<>>}
    ELSE UNION {{<<x>> \o s : s \in Orders(S \ {x})} : x \in S}

Range(s) == {s[k] : k \in DOMAIN s}

\* the frequency count of huffman.rs main and of zip_compress
count_chars(str) ==
    [c \in Range(str) |-> Cardinality({k \in DOMAIN str : str[k] = c})]

(***************************************************************************)
(* huffman_encode and huffman_decode                                       *)
(***************************************************************************)
RECURSIVE encode_from(_, _, _)
encode_from(text, cb, k) ==
    IF k > Len(text) THEN <<>> ELSE cb[text[k]] \o encode_from(text, cb, k + 1)

huffman_encode(text, cb) == encode_from(text, cb, 1)

\* the for loop of huffman_decode from bit k on; yields the decoded string
\* and what is left in `bits`. The codes of a codebook are distinct, so find
\* has at most one entry to return.
RECURSIVE decode_bits(_, _, _, _, _)
decode_bits(bitseq, cb, k, bits, out) ==
    IF k > Len(bitseq)
    THEN [decoded |-> out, bits |-> bits]
    ELSE LET b == Append(bits, bitseq[k])
             found == {c \in DOMAIN cb : cb[c] = b}
         IN  IF found # {}
             THEN decode_bits(bitseq, cb, k + 1, <<>>, Append(out, CHOOSE c \in found : TRUE))
             ELSE decode_bits(bitseq, cb, k + 1, b, out)

huffman_decode(bitseq, cb) == decode_bits(bitseq, cb, 1, <<>>, <<>>)

(***************************************************************************)
(* The state machine                                                       *)
(***************************************************************************)
\* every input of zip.rs over Bytes of length <= ZipMaxLen is explored
ZipMaxLen == 3

ZipInputs == UNION {[1..n -> Bytes] : n \in 0..ZipMaxLen} \cup {Run(65, MidLen)}

NoMatch == [valid |-> FALSE, cur |-> 0, offset |-> 0, length |-> 0]

InitWith(p, inputs) ==
    /\ prog = p
    /\ data \in inputs
    /\ pc = IF p = "huffman" THEN "count" ELSE "encode"
    /\ i = 0
    /\ compressed = <<>>
    /\ cursors = <<>>
    /\ fm = NoMatch
    /\ lz77_string = IF p = "huffman" THEN data ELSE <<>>
    /\ frequencies = <<>>
    /\ tree = NoTree
    /\ codebook = <<>>
    /\ huffman_encoded = <<>>
    /\ run = 1
    /\ first = <<>>
    /\ received = <<>>
    /\ decoded = <<>>
    /\ leftover = <<>>
    /\ lz77_encoded = <<>>
    /\ decompressed = <<>>

\* the cursors find_longest_match is called at directly: every cursor of an
\* input of length <= MaxLen, the first and the last Probe cursors of a
\* longer one
Probe == 3

Cursors(d) ==
    {cur \in 0..(Len(d) - 1) : Len(d) <= MaxLen \/ cur < Probe \/ cur >= Len(d) - Probe}

\* a direct call of find_longest_match at a cursor of the input
FindLongestMatch ==
    /\ prog = "lz77"
    /\ pc = "encode"
    /\ i = 0
    /\ \E cur \in Cursors(data) :
          LET m == find_longest_match(data, cur)
          IN  fm' = [valid |-> TRUE, cur |-> cur, offset |-> m[1], length |-> m[2]]
    /\ pc' = "called"
    /\ UNCHANGED <<prog, data, i, compressed, cursors, lz77_string, frequencies,
                   tree, codebook, huffman_encoded, run, first, received, decoded,
                   leftover, lz77_encoded, decompressed>>

\* one iteration of the while loop of lz77_encode
EncodeStep ==
    /\ pc = "encode"
    /\ i < Len(data)
    /\ LET m == find_longest_match(data, i)
       IN  /\ compressed' = Append(compressed, encode_token(m, At(data, i)))
           /\ i' = i + encode_advance(m)
    /\ cursors' = Append(cursors, i)
    /\ UNCHANGED <<prog, pc, data, fm, lz77_string, frequencies, tree, codebook,
                   huffman_encoded, run, first, received, decoded, leftover,
                   lz77_encoded, decompressed>>

\* lz77_decode: in main.rs on what lz77_encode returned, in zip_decompress on
\* the tokens parsed back
Lz77Decode ==
    /\ \/ prog = "lz77" /\ pc = "encode" /\ i >= Len(data)
       \/ prog = "zip" /\ pc = "replay"
    /\ \E checked \in BOOLEAN :
          LET r == lz77_decode(IF prog = "lz77" THEN compressed ELSE lz77_encoded, checked)
          IN  /\ decompressed' = r.out
              /\ pc' = IF r.ok THEN "done" ELSE "panic"
    /\ UNCHANGED <<prog, data, i, compressed, cursors, fm, lz77_string, frequencies,
                   tree, codebook, huffman_encoded, run, first, received, decoded,
                   leftover, lz77_encoded>>

\* zip_compress: lz77_encode has returned; the tokens become lz77_string
Serialize ==
    /\ prog = "zip"
    /\ pc = "encode"
    /\ i >= Len(data)
    /\ lz77_string' = serialize(compressed)
    /\ pc' = "count"
    /\ UNCHANGED <<prog, data, i, compressed, cursors, fm, frequencies, tree,
                   codebook, huffman_encoded, run, first, received, decoded,
                   leftover, lz77_encoded, decompressed>>

\* the frequency table of the string
CountFrequencies ==
    /\ pc = "count"
    /\ frequencies' = count_chars(lz77_string)
    /\ pc' = "tree"
    /\ UNCHANGED <<prog, data, i, compressed, cursors, fm, lz77_string, tree,
                   codebook, huffman_encoded, run, first, received, decoded,
                   leftover, lz77_encoded, decompressed>>

\* build_tree, whose last line unwraps the pop of an empty heap when the
\* table is empty, then build_codebook from the root with an empty prefix
BuildTree ==
    /\ pc = "tree"
    /\ IF DOMAIN frequencies = {}
       THEN /\ pc' = "panic"
            /\ UNCHANGED <<tree, codebook>>
       ELSE \E order \in Orders(DOMAIN frequencies) :
               LET t == build_tree(frequencies, order)
               IN  /\ tree' = t
                   /\ codebook' = build_codebook(t, <<>>)
                   /\ pc' = "huffman_encode"
    /\ UNCHANGED <<prog, data, i, compressed, cursors, fm, lz77_string, frequencies,
                   huffman_encoded, run, first, received, decoded, leftover,
                   lz77_encoded, decompressed>>

\* huffman_encode, and the same loop at the end of zip_compress
HuffmanEncode ==
    /\ pc = "huffman_encode"
    /\ huffman_encoded' = huffman_encode(lz77_string, codebook)
    /\ pc' = "compressed"
    /\ UNCHANGED <<prog, data, i, compressed, cursors, fm, lz77_string, frequencies,
                   tree, codebook, run, first, received, decoded, leftover,
                   lz77_encoded, decompressed>>

\* zip_compress called a second time on the same input
SecondRun ==
    /\ prog = "zip"
    /\ pc = "compressed"
    /\ run = 1
    /\ run' = 2
    /\ first' = <<huffman_encoded, codebook>>
    /\ i' = 0
    /\ compressed' = <<>>
    /\ cursors' = <<>>
    /\ lz77_string' = <<>>
    /\ frequencies' = <<>>
    /\ tree' = NoTree
    /\ codebook' = <<>>
    /\ huffman_encoded' = <<>>
    /\ pc' = "encode"
    /\ UNCHANGED <<prog, data, fm, received, decoded, leftover, lz77_encoded,
                   decompressed>>

FlipLast(bitseq) == [bitseq EXCEPT ![Len(bitseq)] = ~bitseq[Len(bitseq)]]

DropLast(bitseq) == SubSeq(bitseq, 1, Len(bitseq) - 1)

\* the bit sequences huffman_decode is called with: the encoder's output, and
\* that output with its final bit flipped or lost
Streams(bitseq) ==
    IF Len(bitseq) = 0 THEN {bitseq} ELSE {bitseq, FlipLast(bitseq), DropLast(bitseq)}

\* huffman_decode, the first step of zip_decompress
HuffmanDecode ==
    /\ pc = "compressed"
    /\ \E s \in Streams(huffman_encoded) :
          LET r == huffman_decode(s, codebook)
          IN  /\ received' = s
              /\ decoded' = r.decoded
              /\ leftover' = r.bits
    /\ pc' = IF prog = "zip" THEN "parse" ELSE "done"
    /\ UNCHANGED <<prog, data, i, compressed, cursors, fm, lz77_string, frequencies,
                   tree, codebook, huffman_encoded, run, first, lz77_encoded,
                   decompressed>>

\* zip_decompress: the decoded string is read back as tokens
ParseTokens ==
    /\ prog = "zip"
    /\ pc = "parse"
    /\ LET r == parse_tokens(decoded)
       IN  /\ lz77_encoded' = r.toks
           /\ pc' = IF r.ok THEN "replay" ELSE "panic"
    /\ UNCHANGED <<prog, data, i, compressed, cursors, fm, lz77_string, frequencies,
                   tree, codebook, huffman_encoded, run, first, received, decoded,
                   leftover, decompressed>>

\* src/main.rs and examples/lz77.rs
InitLz77 == InitWith("lz77", Inputs)

NextLz77 == FindLongestMatch \/ EncodeStep \/ Lz77Decode

SpecLz77 == InitLz77 /\ [][NextLz77]_vars

\* examples/huffman.rs
InitHuffman == InitWith("huffman", ShortInputs)

NextHuffman == CountFrequencies \/ BuildTree \/ HuffmanEncode \/ HuffmanDecode

SpecHuffman == InitHuffman /\ [][NextHuffman]_vars

\* examples/zip.rs
Init == InitWith("zip", ZipInputs)

Next ==
    \/ EncodeStep
    \/ Serialize
    \/ CountFrequencies
    \/ BuildTree
    \/ HuffmanEncode
    \/ SecondRun
    \/ HuffmanDecode
    \/ ParseTokens
    \/ Lz77Decode

Spec == Init /\ [][Next]_vars

(***************************************************************************)
(* What the properties are stated with                                     *)
(***************************************************************************)
\* the start positions with 1 <= cur - s <= min(cur, WINDOW_SIZE)
WindowStarts(cur) == {s \in 0..(cur - 1) : cur - s <= WINDOW_SIZE}

\* data[s .. s + k] == data[cur .. cur + k]
SlicesEqual(d, s, cur, k) == \A j \in 0..(k - 1) : At(d, s + j) = At(d, cur + j)

\* the greatest k <= WINDOW_SIZE with cur + k <= len(data) whose slices at s
\* and at cur are equal
CommonLen(d, s, cur) ==
    CHOOSE k \in 0..Min(WINDOW_SIZE, Len(d) - cur) :
        /\ SlicesEqual(d, s, cur, k)
        /\ \A k2 \in (k + 1)..Min(WINDOW_SIZE, Len(d) - cur) : ~SlicesEqual(d, s, cur, k2)

\* the greatest CommonLen over the window, 0 when the window is empty
BestLen(d, cur) ==
    LET lens == {0} \cup {CommonLen(d, s, cur) : s \in WindowStarts(cur)}
    IN  CHOOSE k \in lens : \A k2 \in lens : k2 <= k

\* the start positions of the window that achieve the greatest length
Tied(d, cur) ==
    LET best == BestLen(d, cur)
    IN  {s \in WindowStarts(cur) : CommonLen(d, s, cur) = best}

IsPrefix(a, b) == Len(a) <= Len(b) /\ SubSeq(b, 1, Len(a)) = a

Codes == {codebook[c] : c \in DOMAIN codebook}

(***************************************************************************)
(* src/main.rs: lz77_encode, lz77_decode, find_longest_match               *)
(***************************************************************************)
\* C4: lz77_decode(lz77_encode(x)) == x for every input x, matches that
\* overlap their own output included.
Lz77RoundTrip ==
    (prog = "lz77" /\ pc \in {"done", "panic"}) => (pc = "done" /\ decompressed = data)

\* a finished round trip with a match longer than its offset
Lz77RoundTripWitness ==
    /\ prog = "lz77"
    /\ pc = "done"
    /\ decompressed = data
    /\ \E k \in DOMAIN compressed : compressed[k].length > compressed[k].offset

\* C5: every match token lz77_encode pushes at cursor p has
\* 1 <= offset <= min(p, WINDOW_SIZE) and length <= WINDOW_SIZE.
WindowBound ==
    \A k \in DOMAIN compressed :
        compressed[k].length # 0 =>
            /\ 1 <= compressed[k].offset
            /\ compressed[k].offset <= Min(cursors[k], WINDOW_SIZE)
            /\ compressed[k].length <= WINDOW_SIZE

\* a match as long as the window, and a match at a cursor past the window
\* that reaches back the whole window
WindowBoundWitness ==
    /\ \E k \in DOMAIN compressed : compressed[k].length = WINDOW_SIZE
    /\ \E k \in DOMAIN compressed :
          /\ compressed[k].length # 0
          /\ cursors[k] > WINDOW_SIZE
          /\ compressed[k].offset = WINDOW_SIZE

\* C9, as the spec states it: at every cursor find_longest_match returns
\* <<offset, length>> with equal slices, 1 <= offset <= min(cursor, WINDOW_SIZE)
\* and the greatest length.
MatchContract ==
    fm.valid =>
        /\ 1 <= fm.offset
        /\ fm.offset <= Min(fm.cur, WINDOW_SIZE)
        /\ SlicesEqual(data, fm.cur - fm.offset, fm.cur, fm.length)
        /\ fm.length = BestLen(data, fm.cur)

\* C9, amended: the length is the greatest one; a length >= 1 comes with
\* 1 <= offset <= min(cursor, WINDOW_SIZE) and equal slices; a length of 0
\* (no position of the window matches, as at cursor 0) comes with offset == cursor.
MatchContractAmended ==
    fm.valid =>
        /\ fm.length = BestLen(data, fm.cur)
        /\ fm.length >= 1 =>
              /\ 1 <= fm.offset
              /\ fm.offset <= Min(fm.cur, WINDOW_SIZE)
              /\ SlicesEqual(data, fm.cur - fm.offset, fm.cur, fm.length)
        /\ fm.length = 0 => fm.offset = fm.cur

\* a call whose match is cut at WINDOW_SIZE bytes, with more equal bytes behind
MatchContractWitness ==
    /\ fm.valid
    /\ fm.length = WINDOW_SIZE
    /\ fm.cur + WINDOW_SIZE < Len(data)
    /\ At(data, fm.cur - fm.offset + WINDOW_SIZE) = At(data, fm.cur + WINDOW_SIZE)

\* C10: when several start positions of the window achieve the greatest
\* length, and it is >= 1, the match returned starts at the smallest of them
\* (the largest offset).
TieBreak ==
    LET tied == Tied(data, fm.cur)
    IN  (fm.valid /\ BestLen(data, fm.cur) >= 1 /\ Cardinality(tied) >= 2) =>
            /\ fm.cur - fm.offset \in tied
            /\ \A s \in tied : fm.cur - fm.offset <= s

\* a call with at least two start positions of the greatest length
TieBreakWitness ==
    LET tied == Tied(data, fm.cur)
    IN  /\ fm.valid
        /\ fm.length >= 1
        /\ Cardinality(tied) >= 2
        /\ fm.cur - fm.offset \in tied

(***************************************************************************)
(* examples/zip.rs                                                         *)
(***************************************************************************)
\* C1: zip_decompress(zip_compress(x)) returns x for every input x, the empty
\* one included.
ZipRoundTrip ==
    (prog = "zip" /\ pc \in {"done", "panic"} /\ received = huffman_encoded) =>
        (pc = "done" /\ decompressed = data)

\* C2: the codebook is prefix-free and every code has at least one bit, also
\* when there is one symbol.
CodebookValid ==
    \A c \in DOMAIN codebook :
        /\ Len(codebook[c]) >= 1
        /\ \A c2 \in DOMAIN codebook : c2 # c => ~IsPrefix(codebook[c], codebook[c2])

\* C3: the tokens lz77_encode produced, written as lz77_string and read back
\* in groups as zip_decompress reads them, are the same tokens.
SerializationLossless ==
    (prog = "zip" /\ pc = "count") =>
        LET r == parse_tokens(lz77_string)
        IN  r.ok /\ r.toks = compressed

\* C6: a second zip_compress of the same input returns the same bits and the
\* same codebook as the first.
Deterministic ==
    (prog = "zip" /\ run = 2 /\ pc = "compressed") => first = <<huffman_encoded, codebook>>

(***************************************************************************)
(* examples/huffman.rs                                                     *)
(***************************************************************************)
\* C7: huffman_decode does not return a decoded string when the bits left
\* over at the end of the input are no codeword.
LeftoverRejected ==
    ~(pc \in {"done", "parse"} /\ Len(leftover) > 0 /\ leftover \notin Codes)

\* C8: for every non-empty text, huffman_decode(huffman_encode(text)) == text
\* with the codebook built from the text's frequencies.
HuffmanRoundTrip ==
    (prog = "huffman" /\ Len(data) >= 1 /\ pc \in {"done", "panic"}
         /\ received = huffman_encoded) =>
        (pc = "done" /\ decoded = data)

====
